---- MODULE Spec2Model ----
(***************************************************************************)
(* A model of the "wha" media_player component                             *)
(* (src/custom_components/wha/media_player.py): the Speaker, Wrapped,      *)
(* Source and Group entities, the service calls they issue to the host     *)
(* and the values they read back from the host's state store.              *)
(*                                                                         *)
(* Every coroutine is a straight-line list of statements ("program").  A   *)
(* task suspends at each awaited service call and resumes when the host    *)
(* completes the call (Return) or makes it raise (Raise); the code between *)
(* two awaits runs in one step, as it does on the host's event loop.       *)
(*                                                                         *)
(* Volumes are fixed-point numbers counted in 1/10000: a level 1.0 is      *)
(* Unit, a configured percentage p is p/100 = p * Percent.                 *)
(***************************************************************************)
EXTENDS Integers, Sequences, FiniteSets, TLC

\* ---------------------------------------------------------------- bounds
MaxSpeakers == 2     \* speakers in a platform configuration
MaxSources == 2      \* entries of the 'sources' list
VolGrid == 2         \* configured percentages are k*100/VolGrid, k = 0..VolGrid
LevelGrid == 2       \* requested levels are k/LevelGrid, k = 0..LevelGrid

\* ------------------------------------------------------------- constants
Unit == 10000        \* the volume level 1.0
Percent == 100       \* one percent, line 285: "/ 100"
None == -1           \* Python's None where a number is expected
NoSource == "None"   \* Python's None where a source name is expected
STATE_ON == "on"
STATE_OFF == "off"

Percents == {(k * 100) \div VolGrid : k \in 0..VolGrid}
Levels == {(k * Unit) \div LevelGrid : k \in 0..LevelGrid}

\* volume_int and the 'volume' dictionary of SPEAKER_SCHEMA: each key optional
VolumeCfg == [min : Percents \cup {None}, max : Percents \cup {None},
              default : Percents \cup {None}]
NoVolumeCfg == [min |-> None, max |-> None, default |-> None]

VARIABLES
    config,          \* the validated platform configuration
    store,           \* hass.states: entity -> attributes the host records
    speaker_state,   \* Speaker._state, per speaker
    default_source,  \* Wrapped.default_source, per wrapped device
    group_state,     \* Group._state
    task,            \* the coroutine of each operation: where it is suspended
    calls,           \* the service calls issued to hass.services.async_call
    on_source,       \* history: what a device reported when its turn_on returned
    first_on_source  \* history: what a receiver reported when the first turn_on
                     \* since its Speaker was last off returned

vars == <<config, store, speaker_state, default_source, group_state, task,
          calls, on_source, first_on_source>>

\* --------------------------------------------------------------- entities
Snap(i) == <<"snap", i>>            \* the speaker's snapclient entity
Recv(i) == <<"recv", i>>            \* the speaker's receiver entity
SpeakerEntity(i) == <<"speaker", i>>
SnapGroup == <<"snapgroup", 0>>
SourceEntity(j) == <<"source", j>>

Speakers == 1..Len(config.speakers)

\* Speaker.__init__: self._receiver is a Wrapped when CONF_RECEIVER is configured
HasReceiver(i) == config.speakers[i].receiver

\* The devices Speaker.__init__ wraps
Wrappeds == {Snap(i) : i \in Speakers} \cup {Recv(i) : i \in {s \in Speakers : HasReceiver(s)}}

\* The config dictionary a Wrapped is built from
\* (Speaker.__init__: Wrapped(hass, config[CONF_SNAPCLIENT]) / config[CONF_RECEIVER])
WrappedConfig(w) ==
    IF w[1] = "recv" THEN config.speakers[w[2]].recv ELSE config.speakers[w[2]].snap

\* ---------------------------------------------------------------- Wrapped
\* Wrapped.__init__: min_volume = volume_cfg.get(CONF_MIN, 0) / 100
min_volume(w) ==
    (IF WrappedConfig(w).min = None THEN 0 ELSE WrappedConfig(w).min) * Percent

\* Wrapped.__init__: max_volume = volume_cfg.get(CONF_MAX, 100) / 100
max_volume(w) ==
    (IF WrappedConfig(w).max = None THEN 100 ELSE WrappedConfig(w).max) * Percent

\* Wrapped.__init__: volume_scale is max - min only when the caller passes a
\* volume_scale argument; Speaker.__init__ passes none, so it is 1.
volume_scale_arg == None

volume_scale(w) ==
    IF volume_scale_arg # None THEN max_volume(w) - min_volume(w) ELSE Unit

\* Wrapped.__init__: default_volume = volume_cfg.get(CONF_DEFAULT)
default_volume(w) == WrappedConfig(w).default

\* What hass.states holds for an entity it has never heard of: Wrapped.attrs
\* is then {} and every attrs.get() gives its default.
NoAttrs == [state |-> STATE_OFF, source |-> NoSource, volume_level |-> None,
            is_volume_muted |-> FALSE]

\* Wrapped.attrs / Group._snap_attr: getattr(hass.states.get(entity_id), 'attributes', {})
attrs(e) == IF e \in DOMAIN store THEN store[e] ELSE NoAttrs

\* Wrapped.attrs.get('source'), None when the host records none
attrs_source(w) == attrs(w).source

\* Wrapped.get_volume_level: min_volume + volume_scale * volume
get_volume_level(w, volume) == min_volume(w) + (volume_scale(w) * volume) \div Unit

\* Wrapped.volume_level: attrs.get("volume_level", 0) rescaled
Wrapped_volume_level(w) ==
    get_volume_level(w, IF attrs(w).volume_level = None THEN 0 ELSE attrs(w).volume_level)

\* ---------------------------------------------------------- Speaker reads
\* Speaker.state
Speaker_state(i) == speaker_state[i]

\* The device a Speaker's volume and mute are read from and set on
VolumeDevice(i) == IF HasReceiver(i) THEN Recv(i) ELSE Snap(i)

\* Speaker.volume_level
Speaker_volume_level(i) == Wrapped_volume_level(VolumeDevice(i))

\* Speaker.is_volume_muted
Speaker_is_volume_muted(i) == attrs(VolumeDevice(i)).is_volume_muted

\* Speaker.source
Speaker_source(i) == attrs(Snap(i)).source

\* ------------------------------------------------------------ Group reads
RECURSIVE SumVolumes(_)
\* sum(s.volume_level for s in self._speakers[i..])
SumVolumes(i) ==
    IF i > Len(config.speakers) THEN 0 ELSE Speaker_volume_level(i) + SumVolumes(i + 1)

\* Group.volume_level: sum(...) / len(self._speakers), the quotient kept as
\* the pair it is computed from; dividing by len() = 0 raises
Group_volume_level ==
    IF Len(config.speakers) = 0
    THEN [raises |-> "ZeroDivisionError", sum |-> 0, len |-> 0]
    ELSE [raises |-> "", sum |-> SumVolumes(1), len |-> Len(config.speakers)]

\* Group.state
Group_state == group_state

\* Group.is_volume_muted
Group_is_volume_muted == attrs(SnapGroup).is_volume_muted

\* -------------------------------------------------------------- statements
\* A coroutine body is a sequence of statements.  A "call" statement awaits
\* hass.services.async_call(DOMAIN, service, data) when its guard holds (the
\* "if" around it in the source) and is skipped otherwise; the other kinds
\* are the assignments between the awaits.
Stmt(kind, guard, entity, service, source, volume, mute, value) ==
    [kind |-> kind, guard |-> guard, entity |-> entity, service |-> service,
     source |-> source, volume |-> volume, mute |-> mute, value |-> value]

\* _call_service(hass, name, entity_id, data) / Wrapped.call_service(name, data)
call_service(guard, entity, service, source, volume, mute) ==
    Stmt("call", guard, entity, service, source, volume, mute, "")

\* self.default_source = self.attrs.get('source')
CacheSource(w) == Stmt("cache", TRUE, w, "", NoSource, None, FALSE, "")

\* self._state = value (Speaker)
SetSpeakerState(i, value) ==
    Stmt("set_speaker", TRUE, SpeakerEntity(i), "", NoSource, None, FALSE, value)

\* self._state = value (Group)
SetGroupState(value) ==
    Stmt("set_group", TRUE, SnapGroup, "", NoSource, None, FALSE, value)

\* Wrapped.select_source
Wrapped_select_source(w, source) ==
    <<call_service(TRUE, w, "select_source", source, None, FALSE)>>

\* Wrapped.select_default_source: only when a default source is cached
Wrapped_select_default_source(w) ==
    <<call_service(default_source[w] # NoSource, w, "select_source",
                   default_source[w], None, FALSE)>>

\* Mutant of Wrapped.turn_on: the source is cached before the device is on
Wrapped_turn_on_cache_first(w) ==
    <<CacheSource(w), call_service(TRUE, w, "turn_on", NoSource, None, FALSE)>>

\* Wrapped.turn_on: the call, then the cache of the source the device reports
Wrapped_turn_on(w) ==
    <<call_service(TRUE, w, "turn_on", NoSource, None, FALSE), CacheSource(w)>>

\* Wrapped.turn_off: restore the default source, then the call
Wrapped_turn_off(w) ==
    Wrapped_select_default_source(w)
        \o <<call_service(TRUE, w, "turn_off", NoSource, None, FALSE)>>

\* Wrapped.set_volume_level
Wrapped_set_volume_level(w, volume) ==
    <<call_service(TRUE, w, "volume_set", NoSource, get_volume_level(w, volume), FALSE)>>

\* Wrapped.set_default_volume: only when a default is configured
Wrapped_set_default_volume(w) ==
    <<call_service(default_volume(w) # None, w, "volume_set", NoSource,
                   default_volume(w) * Percent, FALSE)>>

\* Speaker.async_mute_volume, through Wrapped.call_service, whose
\* "if self.entity_id" always holds: the schema requires an entity_id
Speaker_async_mute_volume(i, mute) ==
    (IF HasReceiver(i)
        THEN <<call_service(TRUE, Recv(i), "volume_mute", NoSource, None, mute)>>
        ELSE <<>>)
    \o <<call_service(TRUE, Snap(i), "volume_mute", NoSource, None, mute)>>

\* Mutant of Speaker.async_turn_on: the client is switched on first
Speaker_async_turn_on_client_first(i) ==
    (IF HasReceiver(i)
        THEN Wrapped_turn_on(Snap(i))
             \o Wrapped_set_volume_level(Snap(i), Unit)
             \o Wrapped_turn_on(Recv(i))
             \o Wrapped_set_default_volume(Recv(i))
             \o Wrapped_select_source(Recv(i), config.speakers[i].source)
        ELSE Wrapped_turn_on(Snap(i))
             \o Wrapped_set_default_volume(Snap(i)))
    \o <<SetSpeakerState(i, STATE_ON)>>
    \o Speaker_async_mute_volume(i, FALSE)

\* Speaker.async_turn_on
Speaker_async_turn_on(i) ==
    (IF HasReceiver(i)
        THEN Wrapped_turn_on(Recv(i))
             \o Wrapped_set_default_volume(Recv(i))
             \o Wrapped_select_source(Recv(i), config.speakers[i].source)
             \o Wrapped_turn_on(Snap(i))
             \o Wrapped_set_volume_level(Snap(i), Unit)
        ELSE Wrapped_turn_on(Snap(i))
             \o Wrapped_set_default_volume(Snap(i)))
    \o <<SetSpeakerState(i, STATE_ON)>>
    \o Speaker_async_mute_volume(i, FALSE)

\* Mutant of Speaker.async_turn_off: the reverse of the turn-on order
Speaker_async_turn_off_client_first(i) ==
    (IF HasReceiver(i)
        THEN Wrapped_turn_off(Snap(i))
             \o Wrapped_select_default_source(Recv(i))
             \o Wrapped_turn_off(Recv(i))
        ELSE Wrapped_turn_off(Snap(i)))
    \o <<SetSpeakerState(i, STATE_OFF)>>
    \o Speaker_async_mute_volume(i, TRUE)

\* Speaker.async_turn_off
Speaker_async_turn_off(i) ==
    (IF HasReceiver(i)
        THEN Wrapped_select_default_source(Recv(i))
             \o Wrapped_turn_off(Recv(i))
             \o Wrapped_turn_off(Snap(i))
        ELSE Wrapped_turn_off(Snap(i)))
    \o <<SetSpeakerState(i, STATE_OFF)>>
    \o Speaker_async_mute_volume(i, TRUE)

\* Speaker.async_set_volume_level
Speaker_async_set_volume_level(i, volume) ==
    IF HasReceiver(i)
        THEN Wrapped_set_volume_level(Recv(i), volume)
        ELSE Wrapped_set_volume_level(Snap(i), volume)

\* ----------------------------------------------------------------- Source
\* async_setup_platform: sources = {conf['name']: Source(hass, conf) ...}; a
\* later entry of the same name replaces an earlier one.  0: no such key.
SourceIndex(name) ==
    LET hits == {j \in 1..Len(config.sources) : config.sources[j].name = name}
    IN IF hits = {} THEN 0 ELSE CHOOSE j \in hits : \A h \in hits : h <= j

\* Source.select: only when the source has a 'source' entry
Source_select(j) ==
    <<call_service(config.sources[j].has_source, SourceEntity(j), "select_source",
                   config.sources[j].source_name, None, FALSE)>>

\* ------------------------------------------------------------------ Group
RECURSIVE GroupPower_all(_, _)
\* Mutant of the loop: on_default is ignored
GroupPower_all(i, service) ==
    IF i > Len(config.speakers) THEN <<>>
    ELSE <<call_service(TRUE, SpeakerEntity(i), service, NoSource, None, FALSE)>>
         \o GroupPower_all(i + 1, service)

RECURSIVE GroupPower(_, _)
\* the loop of Group.async_turn_on / async_turn_off over self._speakers[i..]
GroupPower(i, service) ==
    IF i > Len(config.speakers) THEN <<>>
    ELSE <<call_service(config.speakers[i].on_default, SpeakerEntity(i), service,
                        NoSource, None, FALSE)>>
         \o GroupPower(i + 1, service)

\* Group.async_turn_on
Group_async_turn_on == GroupPower(1, "turn_on") \o <<SetGroupState(STATE_ON)>>

\* Group.async_turn_off
Group_async_turn_off == GroupPower(1, "turn_off") \o <<SetGroupState(STATE_OFF)>>

\* Mutant of Group.async_select_source: the snap group is switched first
Group_async_select_source_group_first(name) ==
    <<call_service(TRUE, SnapGroup, "select_source",
                   config.sources[SourceIndex(name)].snapcast_source, None, FALSE)>>
    \o Source_select(SourceIndex(name))

\* Group.async_select_source, once self._sources[source] has been found
Group_async_select_source(name) ==
    Source_select(SourceIndex(name))
    \o <<call_service(TRUE, SnapGroup, "select_source",
                      config.sources[SourceIndex(name)].snapcast_source, None, FALSE)>>

\* async_setup_platform: the position of a key in the dict 'sources' is the
\* position of its first insertion.  0: no such key.
SourcePosition(name) ==
    LET hits == {j \in 1..Len(config.sources) : config.sources[j].name = name}
    IN IF hits = {} THEN 0 ELSE CHOOSE j \in hits : \A h \in hits : j <= h

\* Group.source for what the snap group reports: sources_name is built over
\* self._sources.values() in the dict's order, so of the sources that share
\* a snapcast_source the last one names it; .get(snap_source, snap_source)
Group_source_of(reported) ==
    LET keys == {config.sources[j].name : j \in 1..Len(config.sources)}
        hits == {n \in keys :
                    config.sources[SourceIndex(n)].snapcast_source = reported}
    IN IF hits = {} THEN reported
       ELSE CHOOSE n \in hits :
                \A h \in hits : SourcePosition(h) <= SourcePosition(n)

\* Group.source: snap_source = self._snap_attr.get('source')
Group_source == Group_source_of(attrs(SnapGroup).source)

\* Group.async_select_source: self._sources[source] raises KeyError
KeyError(op, t) == op = "select_source" /\ SourceIndex(t.name) = 0

\* ------------------------------------------------------------------ tasks
Ops == {"turn_on", "turn_off", "set_volume_level",
        "group_turn_on", "group_turn_off", "select_source"}

IdleTask == [status |-> "idle", pc |-> 0, self |-> 0, volume |-> None, name |-> ""]

\* The body of operation op called with the arguments of task record t
Program(op, t) ==
    CASE op = "turn_on" -> Speaker_async_turn_on(t.self)
      [] op = "turn_off" -> Speaker_async_turn_off(t.self)
      [] op = "set_volume_level" -> Speaker_async_set_volume_level(t.self, t.volume)
      [] op = "group_turn_on" -> Group_async_turn_on
      [] op = "group_turn_off" -> Group_async_turn_off
      [] op = "select_source" -> Group_async_select_source(t.name)

RECURSIVE NextCall(_, _)
\* The first statement from k on that awaits a service call
NextCall(prog, k) ==
    IF k > Len(prog) THEN k
    ELSE IF prog[k].kind = "call" /\ prog[k].guard THEN k
    ELSE NextCall(prog, k + 1)

\* The record of a call handed to hass.services.async_call
CallRecord(op, st) ==
    [task |-> op, service |-> st.service, entity |-> st.entity, source |-> st.source,
     volume |-> st.volume, mute |-> st.mute, status |-> "pending"]

\* Run task op from statement k to its next await (or its end): the
\* assignments passed on the way take effect, the awaited call is issued.
Resume(op, t, k, log, tasks) ==
    LET prog == Program(op, t)
        n == NextCall(prog, k)
        ran == {j \in k..(n - 1) : j <= Len(prog) /\ prog[j].kind # "call"}
        last(S) == CHOOSE j \in S : \A h \in S : h <= j
    IN /\ default_source' =
            [w \in DOMAIN default_source |->
                IF \E j \in ran : prog[j].kind = "cache" /\ prog[j].entity = w
                THEN attrs_source(w) ELSE default_source[w]]
       /\ speaker_state' =
            [i \in DOMAIN speaker_state |->
                LET sets == {j \in ran : prog[j].kind = "set_speaker"
                                          /\ prog[j].entity = SpeakerEntity(i)}
                IN IF sets = {} THEN speaker_state[i] ELSE prog[last(sets)].value]
       /\ group_state' =
            LET sets == {j \in ran : prog[j].kind = "set_group"}
            IN IF sets = {} THEN group_state ELSE prog[last(sets)].value
       /\ IF n <= Len(prog)
          THEN /\ task' = [tasks EXCEPT ![op] = [t EXCEPT !.status = "await", !.pc = n]]
               /\ calls' = Append(log, CallRecord(op, prog[n]))
          ELSE /\ task' = [tasks EXCEPT ![op] = [t EXCEPT !.status = "done", !.pc = 0]]
               /\ calls' = log

\* The call task op is suspended on
Pending(op) == CHOOSE c \in 1..Len(calls) : calls[c].task = op /\ calls[c].status = "pending"

Settle(op, status) == [calls EXCEPT ![Pending(op)].status = status]

NoneRunning == \A o \in Ops : task[o].status # "await"

\* The host calls an entity method while no other call of the component is
\* in progress; the log of service calls and the records of the finished
\* tasks start afresh.
Invoke(op, self, volume, name) ==
    LET t == [status |-> "idle", pc |-> 0, self |-> self, volume |-> volume, name |-> name]
    IN /\ NoneRunning
       /\ UNCHANGED <<config, store, on_source, first_on_source>>
       /\ IF KeyError(op, t)
          THEN /\ task' = [o \in Ops |-> IF o = op THEN [t EXCEPT !.status = "raised"]
                                                  ELSE IdleTask]
               /\ calls' = <<>>
               /\ UNCHANGED <<default_source, speaker_state, group_state>>
          ELSE Resume(op, t, 1, <<>>, [o \in Ops |-> IdleTask])

\* hass.services.async_call returns: the task runs on to its next await
Return(op) ==
    /\ task[op].status = "await"
    /\ on_source' =
         LET c == calls[Pending(op)]
         IN IF c.service = "turn_on" /\ c.entity \in DOMAIN on_source
            THEN [on_source EXCEPT ![c.entity] = attrs(c.entity).source]
            ELSE on_source
    /\ first_on_source' =
         LET c == calls[Pending(op)]
         IN IF /\ op = "turn_on"
               /\ c.service = "turn_on"
               /\ c.entity = Recv(task[op].self)
               /\ c.entity \in DOMAIN first_on_source
               /\ speaker_state[task[op].self] = STATE_OFF
            THEN [first_on_source EXCEPT ![c.entity] = attrs(c.entity).source]
            ELSE first_on_source
    /\ Resume(op, task[op], task[op].pc + 1, Settle(op, "ok"), task)
    /\ UNCHANGED <<config, store>>

\* Mutant of Raise: the exception is caught and the coroutine carries on
Raise_swallowed(op) ==
    /\ task[op].status = "await"
    /\ Resume(op, task[op], task[op].pc + 1, Settle(op, "failed"), task)
    /\ UNCHANGED <<config, store, on_source, first_on_source>>

\* hass.services.async_call raises: nothing catches it, the coroutine ends
Raise(op) ==
    /\ task[op].status = "await"
    /\ calls' = Settle(op, "failed")
    /\ task' = [task EXCEPT ![op].status = "raised"]
    /\ UNCHANGED <<config, store, speaker_state, default_source, group_state, on_source,
                   first_on_source>>

\* ------------------------------------------------------------------- host
\* Mutant of async_on_dependency_update: the callback copies the client's
\* recorded state into Speaker._state
async_on_dependency_update_sync ==
    /\ speaker_state' = [i \in DOMAIN speaker_state |-> store'[Snap(i)].state]
    /\ UNCHANGED <<group_state, default_source>>

\* Speaker.async_added_to_hass / Group.async_added_to_hass:
\* async_on_dependency_update only schedules a re-read of the entity's
\* properties; it assigns no field of the entity.
async_on_dependency_update ==
    UNCHANGED <<speaker_state, group_state, default_source>>

\* The host records new attributes for a device, behind the component's back
HostUpdate(e, recorded) ==
    /\ e \in DOMAIN store
    /\ store[e] # recorded
    /\ store' = [store EXCEPT ![e] = recorded]
    /\ async_on_dependency_update
    /\ UNCHANGED <<config, task, calls, on_source, first_on_source>>

\* What the host may come to record for a device
HostAttrs ==
    { NoAttrs,
      [state |-> STATE_ON, source |-> "tv", volume_level |-> 0, is_volume_muted |-> FALSE],
      [state |-> STATE_ON, source |-> "hdmi", volume_level |-> Unit \div 2, is_volume_muted |-> TRUE],
      [state |-> STATE_OFF, source |-> "tv", volume_level |-> Unit, is_volume_muted |-> TRUE] }

HostRecords == \E e \in DOMAIN store, a \in HostAttrs : HostUpdate(e, a)

\* ------------------------------------------------------------------- Init
\* The state after async_setup_platform has built the entities from cfg;
\* hass.states holds the wrapped devices (withDevices) and the snap group
\* (withGroup), or does not know them
Setup(cfg, withDevices, withGroup) ==
    /\ config = cfg
    /\ store = [e \in (IF withDevices THEN Wrappeds ELSE {})
                        \cup (IF withGroup THEN {SnapGroup} ELSE {}) |-> NoAttrs]
    /\ speaker_state = [i \in Speakers |-> STATE_OFF]
    /\ default_source = [w \in Wrappeds |-> NoSource]
    /\ group_state = STATE_OFF
    /\ task = [o \in Ops |-> IdleTask]
    /\ calls = <<>>
    /\ on_source = [w \in Wrappeds |-> NoSource]
    /\ first_on_source = [w \in Wrappeds |-> NoSource]

\* Speaker configurations for the power sequences: the default volumes vary
PowerSpeakers ==
    [on_default : {TRUE}, receiver : {TRUE}, source : {"hdmi"},
     recv : [min : {None}, max : {None}, default : Percents \cup {None}],
     snap : {NoVolumeCfg}]
    \cup
    [on_default : {TRUE}, receiver : {FALSE}, source : {NoSource},
     recv : {NoVolumeCfg},
     snap : [min : {None}, max : {None}, default : Percents \cup {None}]]

Init == \E sp \in PowerSpeakers : Setup([speakers |-> <<sp>>, sources |-> <<>>], TRUE, FALSE)

async_turn_on == \E i \in Speakers : Invoke("turn_on", i, None, "")
async_turn_off == \E i \in Speakers : Invoke("turn_off", i, None, "")
Returns == \E op \in Ops : Return(op)
Raises == \E op \in Ops : Raise(op)

Next ==
    \/ async_turn_on
    \/ async_turn_off
    \/ Returns
    \/ Raises
    \/ HostRecords

Spec == Init /\ [][Next]_vars

\* ======================================================== the power sequences
\* The calls task op has issued so far, oldest first
CallsOf(op) == SelectSeq(calls, LAMBDA c : c.task = op)

Started(op) == task[op].status # "idle"

IsCall(c, entity, service) == c.entity = entity /\ c.service = service

\* Every call but the newest has returned before the next one was issued
OneAtATime(log) == \A k \in 1..Len(log) : k < Len(log) => log[k].status = "ok"

\* What C1 expects of a turn-on of speaker i, which has a receiver
ExpectedTurnOn(i) ==
    <<[entity |-> Recv(i), service |-> "turn_on", source |-> NoSource, volume |-> None,
       anyVolume |-> FALSE]>>
    \o (IF default_volume(Recv(i)) # None
        THEN <<[entity |-> Recv(i), service |-> "volume_set", source |-> NoSource,
                volume |-> default_volume(Recv(i)) * Percent, anyVolume |-> FALSE]>>
        ELSE <<>>)
    \o <<[entity |-> Recv(i), service |-> "select_source",
          source |-> config.speakers[i].source, volume |-> None, anyVolume |-> FALSE],
         [entity |-> Snap(i), service |-> "turn_on", source |-> NoSource, volume |-> None,
          anyVolume |-> FALSE],
         [entity |-> Snap(i), service |-> "volume_set", source |-> NoSource, volume |-> None,
          anyVolume |-> TRUE]>>

Matches(c, e) ==
    /\ IsCall(c, e.entity, e.service)
    /\ c.source = e.source
    /\ e.anyVolume \/ c.volume = e.volume

C2_ClientOffFirst ==
    \A i \in Speakers :
        (HasReceiver(i) /\ Started("turn_off") /\ task["turn_off"].self = i) =>
            LET log == CallsOf("turn_off")
            IN \A k \in 1..Len(log) :
                 IsCall(log[k], Recv(i), "turn_off") =>
                     \E j \in 1..(k - 1) : IsCall(log[j], Snap(i), "turn_off")

\* C2 as amended: a turn-off keeps the device order of the turn-on; the
\* receiver's turn_off is issued, and has returned, before the client's
\* turn_off is issued, and a finished turn-off has issued both.
C2_ReceiverOffFirst ==
    \A i \in Speakers :
        (HasReceiver(i) /\ Started("turn_off") /\ task["turn_off"].self = i) =>
            LET log == CallsOf("turn_off")
            IN /\ \A k \in 1..Len(log) :
                    IsCall(log[k], Snap(i), "turn_off") =>
                        \E j \in 1..(k - 1) :
                            IsCall(log[j], Recv(i), "turn_off") /\ log[j].status = "ok"
               /\ task["turn_off"].status = "done" =>
                    \E k \in 1..Len(log) : IsCall(log[k], Snap(i), "turn_off")

\* A turn-off of a speaker with a receiver ran to its end
C2_Witness ==
    /\ task["turn_off"].status = "done"
    /\ HasReceiver(task["turn_off"].self)
    /\ \E k \in 1..Len(calls) : IsCall(calls[k], Snap(task["turn_off"].self), "turn_off")

\* C3: the receiver's cached default source is the source the receiver
\* reported when its turn_on returned; a turn-off issues select_source with
\* that source to the receiver, returned before the receiver's turn_off is
\* issued, and issues no select_source to the receiver when none is cached.
C3_DefaultSourceRestored ==
    \A i \in Speakers :
        HasReceiver(i) =>
            /\ default_source[Recv(i)] = on_source[Recv(i)]
            /\ (Started("turn_off") /\ task["turn_off"].self = i) =>
                 LET log == CallsOf("turn_off")
                     cached == default_source[Recv(i)]
                 IN /\ \A k \in 1..Len(log) :
                         IsCall(log[k], Recv(i), "select_source") =>
                             cached # NoSource /\ log[k].source = cached
                    /\ \A k \in 1..Len(log) :
                         (IsCall(log[k], Recv(i), "turn_off") /\ cached # NoSource) =>
                             \E j \in 1..(k - 1) :
                                 /\ IsCall(log[j], Recv(i), "select_source")
                                 /\ log[j].source = cached
                                 /\ log[j].status = "ok"
                    /\ (task["turn_off"].status = "done" /\ cached # NoSource) =>
                         \E k \in 1..Len(log) : IsCall(log[k], Recv(i), "select_source")

\* A turn-off restored a cached source before it turned the receiver off
C3_Witness ==
    /\ task["turn_off"].status = "done"
    /\ HasReceiver(task["turn_off"].self)
    /\ default_source[Recv(task["turn_off"].self)] = "tv"
    /\ \E k \in 1..Len(calls) :
         IsCall(calls[k], Recv(task["turn_off"].self), "select_source")
         /\ calls[k].source = "tv"

\* C7: when a service call of a turn-on or turn-off raises, the coroutine
\* ends with the exception: the failed call is the last call of the
\* sequence, it is the only failed one, and a call fails only this way.
C7_NoRetryNoRecovery ==
    \A op \in {"turn_on", "turn_off"} :
        LET log == CallsOf(op)
        IN /\ \A k \in 1..Len(log) :
                log[k].status = "failed" => k = Len(log) /\ task[op].status = "raised"
           /\ task[op].status = "raised" =>
                Len(log) > 0 /\ log[Len(log)].status = "failed"
           /\ OneAtATime(log)

\* A turn-on died at its third call or later
C7_Witness ==
    /\ task["turn_on"].status = "raised"
    /\ Len(calls) >= 3
    /\ calls[Len(calls)].status = "failed"

\* C13: the cached default source survives repeated turn-on.  Whatever
\* turn-ons and turn-offs a Speaker with a receiver has gone through, the
\* source a turn-off selects on the receiver is the source the receiver had
\* at the first turn-on since the Speaker was last off, also when turn-on
\* was invoked again while the Speaker was on.
C13_DefaultSourceSurvives ==
    \A i \in Speakers :
        (HasReceiver(i) /\ Started("turn_off") /\ task["turn_off"].self = i) =>
            \A k \in 1..Len(calls) :
                (calls[k].task = "turn_off" /\ IsCall(calls[k], Recv(i), "select_source"))
                    => calls[k].source = first_on_source[Recv(i)]

VolumeSpeakers ==
    [on_default : {TRUE}, receiver : {TRUE}, source : {"hdmi"},
     recv : VolumeCfg,
     snap : {NoVolumeCfg}]
    \cup
    [on_default : {TRUE}, receiver : {FALSE}, source : {NoSource},
     recv : {NoVolumeCfg},
     snap : VolumeCfg]

InitVolume ==
    \E sp \in VolumeSpeakers : Setup([speakers |-> <<sp>>, sources |-> <<>>], TRUE, FALSE)

async_set_volume_level ==
    \E i \in Speakers, v \in Levels : Invoke("set_volume_level", i, v, "")

\* The host records, on the device a volume_set call was made on, the
\* volume_level that call carried
HostRecordsSent ==
    \E k \in 1..Len(calls) :
        /\ calls[k].service = "volume_set"
        /\ calls[k].status = "ok"
        /\ HostUpdate(calls[k].entity,
                      [store[calls[k].entity] EXCEPT !.volume_level = calls[k].volume])

NextVolume ==
    \/ async_set_volume_level
    \/ Returns
    \/ HostRecords
    \/ HostRecordsSent

SpecVolume == InitVolume /\ [][NextVolume]_vars

\* min and max as the schema's defaults make them, in percent
ConfiguredMin(w) == IF WrappedConfig(w).min = None THEN 0 ELSE WrappedConfig(w).min
ConfiguredMax(w) == IF WrappedConfig(w).max = None THEN 100 ELSE WrappedConfig(w).max

\* C4: the volume_level a set_volume_level(level) sends is
\* min/100 + (max/100 - min/100) * level.
C4_LinearRescaling ==
    \A k \in 1..Len(calls) :
        (calls[k].task = "set_volume_level" /\ calls[k].service = "volume_set") =>
            LET w == calls[k].entity
                level == task["set_volume_level"].volume
            IN calls[k].volume * Unit =
                 ConfiguredMin(w) * Percent * Unit
                 + (ConfiguredMax(w) - ConfiguredMin(w)) * Percent * level

\* C5: every volume_level sent in a volume_set call, and every volume_level
\* a Speaker reports for a host-recorded level in [0,1], lies in [0,1].
C5_VolumeInRange ==
    /\ \A k \in 1..Len(calls) :
         calls[k].service = "volume_set" => calls[k].volume \in 0..Unit
    /\ \A i \in Speakers :
         attrs(VolumeDevice(i)).volume_level \in 0..Unit
             => Speaker_volume_level(i) \in 0..Unit

\* C12: volume round trip.  After Speaker.async_set_volume_level(v), once
\* the host records the sent volume_level on the targeted device (the
\* receiver when there is one, otherwise the client), Speaker.volume_level
\* is v, for every configured min and max.
C12_VolumeRoundTrip ==
    \A i \in Speakers :
        (/\ task["set_volume_level"].status = "done"
         /\ task["set_volume_level"].self = i
         /\ \E k \in 1..Len(calls) :
                /\ IsCall(calls[k], VolumeDevice(i), "volume_set")
                /\ attrs(VolumeDevice(i)).volume_level = calls[k].volume)
        => Speaker_volume_level(i) = task["set_volume_level"].volume

\* ============================================================ group volume
\* Speaker lists for the mean: any length the schema accepts, the clients'
\* min varies
MeanSpeakers ==
    [on_default : BOOLEAN, receiver : {FALSE}, source : {NoSource},
     recv : {NoVolumeCfg},
     snap : [min : Percents \cup {None}, max : {None}, default : {None}]]

SpeakerLists(S) == UNION {[1..n -> S] : n \in 0..MaxSpeakers}

InitMean ==
    \E sps \in SpeakerLists(MeanSpeakers) :
        Setup([speakers |-> sps, sources |-> <<>>], TRUE, FALSE)

NextMean == HostRecords

SpecMean == InitMean /\ [][NextMean]_vars

RECURSIVE SumOver(_, _)
SumOver(f, S) ==
    IF S = {} THEN 0 ELSE LET x == CHOOSE y \in S : TRUE IN f[x] + SumOver(f, S \ {x})

\* C8: Group.volume_level is the arithmetic mean of the volume_level of all
\* the group's speakers, for every speaker list the schema accepts.
C8_GroupVolumeIsMean ==
    /\ Group_volume_level.raises = ""
    /\ Group_volume_level.len = Cardinality(Speakers)
    /\ Group_volume_level.sum = SumOver([i \in Speakers |-> Speaker_volume_level(i)], Speakers)

\* ============================================================= group power
GroupSpeakers ==
    [on_default : BOOLEAN, receiver : {FALSE}, source : {NoSource},
     recv : {NoVolumeCfg}, snap : {NoVolumeCfg}]

InitGroup ==
    \E sps \in SpeakerLists(GroupSpeakers) :
        Setup([speakers |-> sps, sources |-> <<>>], FALSE, TRUE)

\* The Group is the one entity of its kind: its coroutines have no speaker
TheGroup == {0}

group_async_turn_on ==
    /\ NoneRunning
    /\ \E g \in TheGroup : Invoke("group_turn_on", g, None, "")

group_async_turn_off ==
    /\ NoneRunning
    /\ \E g \in TheGroup : Invoke("group_turn_off", g, None, "")

NextGroup ==
    \/ group_async_turn_on
    \/ group_async_turn_off
    \/ Returns
    \/ Raises
    \/ HostRecords

SpecGroup == InitGroup /\ [][NextGroup]_vars

\* The speakers a group power operation addresses, in configured order
OnDefault == SelectSeq([i \in Speakers |-> i], LAMBDA i : config.speakers[i].on_default)

GroupPowerOps == [group_turn_on |-> [service |-> "turn_on", state |-> STATE_ON],
                  group_turn_off |-> [service |-> "turn_off", state |-> STATE_OFF]]

C10_Calls(op) ==
    Started(op) =>
        LET log == CallsOf(op)
        IN /\ Len(log) <= Len(OnDefault)
           /\ \A k \in 1..Len(log) :
                IsCall(log[k], SpeakerEntity(OnDefault[k]), GroupPowerOps[op].service)
           /\ OneAtATime(log)
           /\ task[op].status = "done" =>
                /\ Len(log) = Len(OnDefault)
                /\ \A k \in 1..Len(log) : log[k].status = "ok"
                /\ Group_state = GroupPowerOps[op].state

\* C10: Group.async_turn_on issues one turn_on per speaker whose on_default
\* is set, in configured order, none for the others, and sets the group's
\* state to on only once all of them have returned; async_turn_off does the
\* same with turn_off and off; the state is set also when no speaker has
\* on_default set.
C10_GroupPower ==
    /\ [](\A op \in DOMAIN GroupPowerOps : C10_Calls(op))
    /\ [][Group_state' # Group_state =>
            \E op \in DOMAIN GroupPowerOps :
                /\ task[op].status # "done" /\ task'[op].status = "done"
                /\ Group_state' = GroupPowerOps[op].state
                /\ Len(CallsOf(op)') = Len(OnDefault)
                /\ \A k \in 1..Len(calls') : calls'[k].status = "ok"]_vars

\* A group of two speakers, the first one not on_default, has been turned on
C10_Witness ==
    /\ task["group_turn_on"].status = "done"
    /\ Len(config.speakers) = 2
    /\ ~config.speakers[1].on_default
    /\ config.speakers[2].on_default
    /\ Len(calls) = 1
    /\ Group_state = STATE_ON

\* ================================================================= sources
SourceNames == {"radio", "tv"}
SnapcastSources == {"tv", "hdmi"}

\* SOURCE_SCHEMA
SourceConfigs ==
    [name : SourceNames, snapcast_source : SnapcastSources,
     has_source : BOOLEAN, source_name : {"aux"}]

SourceLists == UNION {[1..n -> SourceConfigs] : n \in 0..MaxSources}

InitSource ==
    \E srcs \in SourceLists : Setup([speakers |-> <<>>, sources |-> srcs], FALSE, TRUE)

async_select_source ==
    /\ NoneRunning
    /\ \E g \in TheGroup, name \in SourceNames : Invoke("select_source", g, None, name)

NextSource ==
    \/ async_select_source
    \/ Returns
    \/ Raises
    \/ HostRecords

SpecSource == InitSource /\ [][NextSource]_vars

\* What C9 expects of select_source(name) for a configured name
ExpectedSelect(name) ==
    LET j == SourceIndex(name)
    IN (IF config.sources[j].has_source
        THEN <<[entity |-> SourceEntity(j), source |-> config.sources[j].source_name]>>
        ELSE <<>>)
       \o <<[entity |-> SnapGroup, source |-> config.sources[j].snapcast_source]>>

\* C9: Group.async_select_source(name) for a configured name issues
\* select_source on the source's own entity (only when it has a 'source'
\* entry), then select_source on the snap group with its snapcast_source;
\* for a name that is not configured it raises and issues no call.
C9_SelectSource ==
    Started("select_source") =>
        LET name == task["select_source"].name
            log == CallsOf("select_source")
        IN IF \A j \in 1..Len(config.sources) : config.sources[j].name # name
           THEN task["select_source"].status = "raised" /\ calls = <<>>
           ELSE LET exp == ExpectedSelect(name)
                IN /\ Len(log) <= Len(exp)
                   /\ \A k \in 1..Len(log) :
                        /\ IsCall(log[k], exp[k].entity, "select_source")
                        /\ log[k].source = exp[k].source
                   /\ OneAtATime(log)
                   /\ task["select_source"].status = "done" => Len(log) = Len(exp)

\* A source with an entity of its own has been selected
C9_Witness ==
    /\ task["select_source"].status = "done"
    /\ Len(calls) = 2
    /\ calls[1].entity[1] = "source"
    /\ calls[2].entity = SnapGroup

\* An unknown name has been asked for
C9_WitnessKeyError ==
    /\ task["select_source"].status = "raised"
    /\ calls = <<>>


\* The select_source call that was sent to the snap group
SentToGroup ==
    {k \in 1..Len(calls) : IsCall(calls[k], SnapGroup, "select_source")}

\* C11: source-name round trip.  After Group.async_select_source(name) for a
\* configured name, once the snap group reports the snapcast_source that was
\* sent, Group.source is that name, whatever sources are configured; and a
\* reported source that is no configured snapcast_source is returned as it is.
C11_SourceRoundTrip ==
    /\ (/\ task["select_source"].status = "done"
        /\ \E k \in SentToGroup : attrs(SnapGroup).source = calls[k].source)
       => Group_source = task["select_source"].name
    /\ (\A j \in 1..Len(config.sources) :
            config.sources[j].snapcast_source # attrs(SnapGroup).source)
       => Group_source = attrs(SnapGroup).source


\* ============================================================= concurrency
\* One Speaker, with or without a receiver, no default volume
ConcSpeakers ==
    [on_default : {TRUE}, receiver : {TRUE}, source : {"hdmi"},
     recv : {NoVolumeCfg}, snap : {NoVolumeCfg}]
    \cup
    [on_default : {TRUE}, receiver : {FALSE}, source : {NoSource},
     recv : {NoVolumeCfg}, snap : {NoVolumeCfg}]

InitConc ==
    \E sp \in ConcSpeakers : Setup([speakers |-> <<sp>>, sources |-> <<>>], TRUE, FALSE)

\* The event loop starts an entity method while other coroutines of the
\* component may be suspended at their awaits: it runs to its first await,
\* the other tasks and the log of calls stay as they are.
InvokeConcurrently(op, self) ==
    LET t == [status |-> "idle", pc |-> 0, self |-> self, volume |-> None, name |-> ""]
    IN /\ task[op].status = "idle"
       /\ UNCHANGED <<config, store, on_source, first_on_source>>
       /\ Resume(op, t, 1, calls, task)

concurrent_turn_on == \E i \in Speakers : InvokeConcurrently("turn_on", i)
concurrent_turn_off == \E i \in Speakers : InvokeConcurrently("turn_off", i)

\* What the devices report is settled before the two calls are made
HostRecordsBefore == calls = <<>> /\ HostRecords

NextConc ==
    \/ concurrent_turn_on
    \/ concurrent_turn_off
    \/ Returns
    \/ HostRecordsBefore

SpecConc == InitConc /\ [][NextConc]_vars

\* The power calls (turn_on, turn_off) issued to the client of Speaker i
PowerCalls(i) ==
    {k \in 1..Len(calls) :
        calls[k].entity = Snap(i) /\ calls[k].service \in {"turn_on", "turn_off"}}

\* C14: a turn_on and a turn_off of one Speaker run concurrently,
\* interleaved at their awaits; once both have completed, Speaker._state
\* agrees with the last power call that was issued to the client.
C14_StateAgreesWithLastPowerCall ==
    \A i \in Speakers :
        (/\ task["turn_on"].status = "done" /\ task["turn_on"].self = i
         /\ task["turn_off"].status = "done" /\ task["turn_off"].self = i)
        => LET last == CHOOSE k \in PowerCalls(i) : \A h \in PowerCalls(i) : h <= k
           IN speaker_state[i] =
                IF calls[last].service = "turn_on" THEN STATE_ON ELSE STATE_OFF

====
